---- MODULE Spec2Model ----
(***************************************************************************)
(* Model of the gdigrab capture worker, its single-slot frame handoff and  *)
(* the demuxer entry points of libavdevice/gdigrab.c.                      *)
(*                                                                         *)
(* Threads: "worker" runs gdigrab_worker; "main" runs gdigrab_worker_start *)
(* and then gdigrab_read_packet calls; "closer" runs gdigrab_read_close,   *)
(* possibly while a gdigrab_read_packet call is in flight.                 *)
(*                                                                         *)
(* pthread objects: the mutex is its owner, the condition variable is the  *)
(* set of threads blocked in pthread_cond_wait.  pthread_cond_wait may     *)
(* return spuriously (SpuriousWakeup).  Operations on a destroyed mutex or *)
(* condition variable, and an unlock by a thread that does not hold the    *)
(* mutex, are undefined: every outcome is a choice (the call works as if   *)
(* the object were alive, or it fails and returns at once).                *)
(***************************************************************************)
EXTENDS Integers, Sequences, FiniteSets, TLC

\* ---- bounds of the model ----
MaxFrames == 3
MaxTick == 1
MaxClose == 2
\* pacing: longest period, largest sleep overshoot, iterations, and the
\* length in periods of the long stall
MaxPeriod == 4
MaxJitter == 2
MaxPaceFrames == 4
StallPeriods == 5
\* geometry: bits of an int, and the largest width and height tried
IntBits == 4
MaxSize == 3

\* ---- program constants ----
NULL == -1
EIO == -5
EAGAIN == -11
FREE == "free"

VARIABLES
    \* struct gdigrab
    error_code, grab_worker_quit, frame_in_stock, time_frame,
    hbmp, dest_hdc, source_hdc, buffer,
    \* grab_mutex, grab_cond
    mutex, waiting, mutexDestroyed, condDestroyed,
    \* gdigrab_worker locals
    wpc, i, sn, error, l_frame_in_stock, time_start, time_end,
    \* wall clock read by av_gettime
    now,
    \* main thread: gdigrab_worker_start, gdigrab_read_packet
    \* (draw_mouse: the option, at its default of 1)
    mpc, nonblock, draw_mouse, start_ret, ret, pkt,
    \* gdigrab_read_close calls made so far
    closes,
    \* history: the step of gdigrab_dc_init that ended it
    dc_stage,
    \* gdigrab_worker pacing locals (lines 560-564)
    time_base, sleep_balance, time_sleep_start, time_sleep,
    time_request_sleep, time_actual_sleep,
    \* history of the pacing step: the balance before it, the argument of
    \* av_usleep (NULL: not called), whether the clamp was ever applied,
    \* the first time_start, and whether every iteration so far had an
    \* instant capture and the sleep overshoot jitter
    prev_balance, usleep_arg, clamped, time_first, steady, jitter,
    \* gdigrab_dc_init geometry: options, target bounds, bit depth, result
    width, height, offset_x, offset_y, virtual_rect, bpp, clip_rect, dc_ret,
    \* history: frames handed to the caller, count of frames put into the
    \* slot, and what ended the main thread's last condition wait
    delivered, published, wokenBy

pacingVars == <<time_base, sleep_balance, time_sleep_start, time_sleep,
                time_request_sleep, time_actual_sleep, prev_balance,
                usleep_arg, clamped, time_first, steady, jitter>>
clipVars == <<width, height, offset_x, offset_y, virtual_rect, bpp,
              clip_rect, dc_ret>>
extVars == <<pacingVars, clipVars>>

vars == <<error_code, grab_worker_quit, frame_in_stock, time_frame,
          hbmp, dest_hdc, source_hdc, buffer, mutex, waiting, mutexDestroyed,
          condDestroyed, wpc, i, sn, error, l_frame_in_stock, time_start,
          time_end, now, mpc, nonblock, draw_mouse, extVars, start_ret, ret,
          pkt, closes, dc_stage, delivered, published, wokenBy>>

gdigrabVars == <<error_code, grab_worker_quit, frame_in_stock, time_frame,
                 hbmp, dest_hdc, source_hdc, buffer>>
syncVars == <<mutex, waiting, mutexDestroyed, condDestroyed>>
workerVars == <<wpc, i, sn, error, l_frame_in_stock, time_start, time_end, now>>
mainVars == <<mpc, nonblock, draw_mouse, extVars, start_ret, ret, pkt>>
histVars == <<delivered, published, wokenBy>>

NoFrame == [sn |-> -1, t0 |-> -1, st |-> "none"]
NoPkt == [src |-> NULL, pts |-> -1]

\* ---- pthread primitives ----

\* pthread_mutex_lock returns: the mutex is free, or it was destroyed.
CanLock == mutex = FREE \/ mutexDestroyed

\* Owner after pthread_mutex_lock by thread t.
Locked(t) == t

\* Owners possible after pthread_mutex_unlock by thread t.
UnlockOutcomes(t) == IF mutex = t THEN {FREE} ELSE {mutex, FREE}

\* Wait sets possible once thread t has called pthread_cond_wait.
WaitOutcomes(t) ==
    IF condDestroyed THEN {waiting \cup {t}, waiting} ELSE {waiting \cup {t}}

\* Wait sets possible after pthread_cond_broadcast.
BroadcastOutcomes == IF condDestroyed THEN {waiting, {}} ELSE {{}}

\* What ended the main thread's wait, when a broadcast by `by' leaves w.
Woken(by, w) == IF "main" \in waiting /\ "main" \notin w THEN by ELSE wokenBy

\* The pacing locals before the worker has run; they are left alone by
\* every step of Spec and exercised by PacingSpec.
PacingIdle ==
    /\ time_base = 0
    /\ sleep_balance = 0
    /\ time_sleep_start = 0
    /\ time_sleep = 0
    /\ time_request_sleep = 0
    /\ time_actual_sleep = 0
    /\ prev_balance = 0
    /\ usleep_arg = NULL
    /\ clamped = FALSE
    /\ time_first = 0
    /\ steady = TRUE
    /\ jitter = 0

NoRect == [left |-> 0, top |-> 0, right |-> 0, bottom |-> 0]

\* The geometry before gdigrab_dc_init has run; left alone by every step
\* of Spec and exercised by ClipSpec.
ClipIdle ==
    /\ width = 0
    /\ height = 0
    /\ offset_x = 0
    /\ offset_y = 0
    /\ virtual_rect = NoRect
    /\ bpp = 0
    /\ clip_rect = NoRect
    /\ dc_ret = NULL

\* The zeroed private data before gdigrab_worker_start, but for the worker's
\* position and the caller's flag.
GrabberIdle ==
    /\ error_code = 0
    /\ grab_worker_quit = FALSE
    /\ frame_in_stock = NULL
    /\ time_frame = 0
    /\ hbmp = [j \in 0..1 |-> FALSE]
    /\ dest_hdc = FALSE
    /\ source_hdc = FALSE
    /\ buffer = [j \in 0..1 |-> NoFrame]
    /\ mutex = FREE
    /\ waiting = {}
    /\ mutexDestroyed = FALSE
    /\ condDestroyed = FALSE
    /\ i = 0
    /\ sn = 0
    /\ error = 0
    /\ l_frame_in_stock = NULL
    /\ time_start = 0
    /\ time_end = 0
    /\ now = 0
    /\ mpc = "init"
    /\ draw_mouse = TRUE
    /\ start_ret = 0
    /\ ret = 0
    /\ pkt = NoPkt
    /\ closes = 0
    /\ dc_stage = "none"
    /\ delivered = <<>>
    /\ published = 0
    /\ wokenBy = "none"

Init ==
    /\ GrabberIdle
    /\ wpc = "none"
    /\ nonblock \in BOOLEAN
    /\ PacingIdle
    /\ ClipIdle

\* ---- gdigrab_worker_start ----

\* pthread_mutex_init, pthread_cond_init, error_code = 0, pthread_create
\* succeeded: the worker thread starts.
StartCreate ==
    /\ mpc = "init"
    /\ error_code' = 0
    /\ wpc' = "dc_init"
    /\ mpc' = "start_lock"
    /\ UNCHANGED <<grab_worker_quit, frame_in_stock, time_frame, hbmp,
                   dest_hdc, source_hdc, buffer, syncVars, i, sn, error,
                   l_frame_in_stock, time_start, time_end, now, nonblock, draw_mouse, extVars,
                   start_ret, ret, pkt, closes, dc_stage, histVars>>

\* pthread_create failed: gdigrab_cond_destroy and return AVERROR(EIO).
StartCreateFail ==
    /\ mpc = "init"
    /\ error_code' = 0
    /\ mutexDestroyed' = TRUE
    /\ condDestroyed' = TRUE
    /\ start_ret' = EIO
    /\ mpc' = "start_failed"
    /\ UNCHANGED <<grab_worker_quit, frame_in_stock, time_frame, hbmp,
                   dest_hdc, source_hdc, buffer, mutex, waiting, workerVars, nonblock, draw_mouse, extVars,
                   ret, pkt, closes, dc_stage, histVars>>

\* The condition under which gdigrab_worker_start waits for the worker.
StartMustWait == error_code = 0

\* pthread_mutex_lock; if (!error_code) pthread_cond_wait, else unlock.
StartLock ==
    /\ mpc = "start_lock"
    /\ CanLock
    /\ IF StartMustWait
       THEN /\ \E w \in WaitOutcomes("main") : waiting' = w
            /\ mpc' = "start_wait"
            /\ wokenBy' = "none"
       ELSE /\ mpc' = "start_ret"
            /\ UNCHANGED <<waiting, wokenBy>>
    /\ UNCHANGED <<gdigrabVars, mutex, mutexDestroyed, condDestroyed,
                   workerVars, nonblock, draw_mouse, extVars, start_ret, ret, pkt, closes, dc_stage,
                   delivered, published>>

\* pthread_cond_wait returns (mutex reacquired); pthread_mutex_unlock.
StartWake ==
    /\ mpc = "start_wait"
    /\ "main" \notin waiting
    /\ CanLock
    /\ mpc' = "start_ret"
    /\ UNCHANGED <<gdigrabVars, syncVars, workerVars, nonblock, draw_mouse, extVars, start_ret,
                   ret, pkt, closes, dc_stage, histVars>>

\* return gdigrab->error_code, read after the unlock.
StartReturn ==
    /\ mpc = "start_ret"
    /\ start_ret' = error_code
    /\ mpc' = IF error_code = 0 THEN "idle" ELSE "start_failed"
    /\ UNCHANGED <<gdigrabVars, syncVars, workerVars, nonblock, draw_mouse, extVars, ret, pkt,
                   closes, dc_stage, histVars>>

\* ---- gdigrab_worker ----

\* How gdigrab_dc_init can end: "ok", or the name of the step that failed
\* (window lookup, GetDC, the two geometry checks, CreateCompatibleDC,
\* CreateDIBSection for i = 0 and i = 1, gdigrab_region_wnd_init).
InitStages == {"ok", "target", "getdc", "region", "compat_dc", "dib0",
               "dib1", "region_wnd"}

\* What gdigrab_dc_init holds when it reaches its end label from stage st.
Acquired(st) ==
    [source_hdc |-> st \notin {"target", "getdc"},
     dest_hdc |-> st \in {"ok", "dib0", "dib1", "region_wnd"},
     hbmp |-> [j \in 0..1 |->
                 IF j = 0 THEN st \in {"ok", "dib1", "region_wnd"}
                 ELSE st \in {"ok", "region_wnd"}]]

\* What gdigrab_dc_destroy leaves.
Released ==
    [source_hdc |-> FALSE, dest_hdc |-> FALSE, hbmp |-> [j \in 0..1 |-> FALSE]]

\* ret of gdigrab_dc_init.
DcInitRet(st) == IF st = "ok" THEN 0 ELSE EIO

\* Mutant: a failed gdigrab_dc_init keeps what it acquired.
AtEnd_Keep(r, res) == res

\* The end label of gdigrab_dc_init: if (ret) gdigrab_dc_destroy(gdigrab).
AtEnd(r, res) == IF r # 0 THEN Released ELSE res

\* gdigrab_dc_init, all of it under grab_mutex: gdigrab_dc_destroy, then
\* the contexts and both DIB sections are created or one step fails and
\* gdigrab_dc_destroy runs again; error_code = ret; broadcast; unlock.
\* On success the worker reads time_end = av_gettime() and enters the loop.
DcInit ==
    /\ wpc = "dc_init"
    /\ CanLock
    /\ \E st \in InitStages :
        LET r == DcInitRet(st)
            res == AtEnd(r, Acquired(st))
        IN  /\ hbmp' = res.hbmp
            /\ dest_hdc' = res.dest_hdc
            /\ source_hdc' = res.source_hdc
            /\ error_code' = r
            /\ dc_stage' = st
            /\ wpc' = IF r = 0 THEN "loop" ELSE "end"
    /\ frame_in_stock' = NULL
    /\ time_end' = now
    /\ \E w \in BroadcastOutcomes :
        /\ waiting' = w
        /\ wokenBy' = Woken("init", w)
    /\ UNCHANGED <<grab_worker_quit, time_frame, buffer, mutex,
                   mutexDestroyed, condDestroyed, i, sn, error,
                   l_frame_in_stock, time_start, now, mainVars, closes,
                   delivered, published>>

\* The loop condition of the for statement, read without the mutex.
LoopContinues == ~grab_worker_quit

\* The value the worker keeps for the slot after a capture into buffer j.
CaptureResult(ok, j) == IF ok THEN j ELSE NULL

\* Top of the loop: leave on quit; else time_start = time_end and
\* SelectObject(dest_hdc, hbmp[i]), which fails or lets BitBlt start.
LoopTop ==
    /\ wpc = "loop"
    /\ IF ~LoopContinues
       THEN /\ wpc' = "end"
            /\ UNCHANGED <<time_start, buffer, error, l_frame_in_stock>>
       ELSE /\ sn < MaxFrames
            /\ time_start' = time_end
            /\ \E sel \in BOOLEAN :
                IF sel
                THEN /\ buffer' = [buffer EXCEPT ![i] =
                            [sn |-> sn, t0 |-> time_end, st |-> "writing"]]
                     /\ wpc' = "blit"
                     /\ UNCHANGED <<error, l_frame_in_stock>>
                ELSE /\ error' = EIO
                     /\ l_frame_in_stock' = CaptureResult(FALSE, i)
                     /\ wpc' = "lock"
                     /\ UNCHANGED buffer
    /\ UNCHANGED <<error_code, grab_worker_quit, frame_in_stock, time_frame,
                   hbmp, dest_hdc, source_hdc, syncVars, i, sn, time_end, now, mainVars,
                   closes, dc_stage, histVars>>

\* BitBlt into buffer i ends; on success, if (gdigrab->draw_mouse) the
\* pointer is still to be painted into the same buffer.  The clock is read
\* only by the worker, so all the time that passes in an iteration is
\* accounted here.
Blit ==
    /\ wpc = "blit"
    /\ \E ok \in BOOLEAN :
        /\ buffer' = [buffer EXCEPT ![i].st =
                        IF ~ok THEN "bad"
                        ELSE IF draw_mouse THEN "writing" ELSE "ok"]
        /\ error' = IF ok THEN 0 ELSE EIO
        /\ l_frame_in_stock' = CaptureResult(ok, i)
        /\ wpc' = IF ok /\ draw_mouse THEN "paint" ELSE "lock"
    /\ \E d \in 0..MaxTick : now' = now + d
    /\ UNCHANGED <<error_code, grab_worker_quit, frame_in_stock, time_frame,
                   hbmp, dest_hdc, source_hdc, syncVars, i, sn, time_start,
                   time_end, mainVars, closes, dc_stage, histVars>>

\* paint_mouse_pointer draws into buffer i; its failures are only logged.
PaintMouse ==
    /\ wpc = "paint"
    /\ buffer' = [buffer EXCEPT ![i].st = "ok"]
    /\ wpc' = "lock"
    /\ UNCHANGED <<error_code, grab_worker_quit, frame_in_stock, time_frame,
                   hbmp, dest_hdc, source_hdc, syncVars, i, sn, error,
                   l_frame_in_stock, time_start, time_end, now, mainVars,
                   closes, dc_stage, histVars>>

\* "Quit if error happened on first try".
FirstTryFailed == error # 0 /\ sn = 0

\* Mutant: the worker does not wait for the slot to drain.
MustWaitStock_NoWait == FALSE

\* The condition of the loop "Wait for a frame being comsumed".
MustWaitStock == frame_in_stock # NULL

\* Mutant: the frame is stamped with the time of the post.
FrameTime_Now == now

\* The timestamp stored with a frame put into the slot.
FrameTime == time_start

\* Mutant: every captured frame is posted as buffer 0.
FrameToPost_First == IF l_frame_in_stock = NULL THEN NULL ELSE 0

\* What the worker stores into gdigrab->frame_in_stock.
FrameToPost == l_frame_in_stock

\* Under the mutex, from the wait loop on: wait while the slot is full;
\* leave on quit; else store time_frame and frame_in_stock, broadcast,
\* unlock.
WaitOrPost ==
    IF MustWaitStock
    THEN /\ \E w \in WaitOutcomes("worker") : waiting' = w
         /\ wpc' = "wait_stock"
         /\ UNCHANGED <<frame_in_stock, time_frame, mutex, published,
                        wokenBy>>
    ELSE IF grab_worker_quit
    THEN /\ wpc' = "end"
         /\ mutex' = Locked("worker")
         /\ UNCHANGED <<frame_in_stock, time_frame, waiting, published,
                        wokenBy>>
    ELSE /\ time_frame' = FrameTime
         /\ frame_in_stock' = FrameToPost
         /\ published' = IF FrameToPost # NULL THEN published + 1
                         ELSE published
         /\ \E w \in BroadcastOutcomes :
             /\ waiting' = w
             /\ wokenBy' = Woken(IF FrameToPost = NULL THEN "skip"
                                 ELSE "post", w)
         /\ wpc' = "sleep"
         /\ UNCHANGED mutex

\* pthread_mutex_lock after the capture, the two exits, then WaitOrPost.
WorkerLock ==
    /\ wpc = "lock"
    /\ CanLock
    /\ IF FirstTryFailed
       THEN /\ error_code' = error
            /\ wpc' = "end"
            /\ mutex' = Locked("worker")
            /\ UNCHANGED <<frame_in_stock, time_frame, waiting, published,
                           wokenBy>>
       ELSE IF grab_worker_quit
       THEN /\ wpc' = "end"
            /\ mutex' = Locked("worker")
            /\ UNCHANGED <<error_code, frame_in_stock, time_frame, waiting,
                           published, wokenBy>>
       ELSE /\ WaitOrPost
            /\ UNCHANGED error_code
    /\ UNCHANGED <<grab_worker_quit, hbmp, dest_hdc, source_hdc, buffer,
                   mutexDestroyed, condDestroyed, i, sn, error,
                   l_frame_in_stock, time_start, time_end, now, mainVars,
                   closes, dc_stage, delivered>>

\* pthread_cond_wait in the wait loop returns with the mutex reacquired.
WorkerWake ==
    /\ wpc = "wait_stock"
    /\ "worker" \notin waiting
    /\ CanLock
    /\ WaitOrPost
    /\ UNCHANGED <<error_code, grab_worker_quit, hbmp, dest_hdc, source_hdc, buffer,
                   mutexDestroyed, condDestroyed, i, sn, error,
                   l_frame_in_stock, time_start, time_end, now, mainVars,
                   closes, dc_stage, delivered>>

\* Mutant: the buffer index does not rotate.
NextIndex_Same(j) == j

\* i = (i + 1) % 2 of the for statement.
NextIndex(j) == (j + 1) % 2

\* The paced sleep; time_end = av_gettime(); then i and sn advance.
Sleep ==
    /\ wpc = "sleep"
    /\ time_end' = now
    /\ i' = NextIndex(i)
    /\ sn' = sn + 1
    /\ wpc' = "loop"
    /\ UNCHANGED <<gdigrabVars, syncVars, error, l_frame_in_stock,
                   time_start, now, mainVars, closes, dc_stage, histVars>>

\* gdigrab_dc_destroy at the end label, first part: contexts released and
\* both bitmaps deleted (buffer[i] = NULL).
DcDestroyFree ==
    /\ wpc = "end"
    /\ hbmp' = [j \in 0..1 |-> FALSE]
    /\ dest_hdc' = FALSE
    /\ source_hdc' = FALSE
    /\ wpc' = "end_clear"
    /\ UNCHANGED <<error_code, grab_worker_quit, frame_in_stock, time_frame,
                   buffer, syncVars, i, sn, error, l_frame_in_stock,
                   time_start, time_end, now, mainVars, closes, dc_stage, histVars>>

\* gdigrab_dc_destroy, second part: frame_in_stock = NULL.
DcDestroyClear ==
    /\ wpc = "end_clear"
    /\ frame_in_stock' = NULL
    /\ wpc' = "end_signal"
    /\ UNCHANGED <<error_code, grab_worker_quit, time_frame, hbmp, dest_hdc, source_hdc,
                   buffer, syncVars, i, sn, error, l_frame_in_stock,
                   time_start, time_end, now, mainVars, closes, dc_stage, histVars>>

\* pthread_cond_broadcast and pthread_mutex_unlock at the end label.
WorkerExitSignal ==
    /\ wpc = "end_signal"
    /\ \E w \in BroadcastOutcomes :
        /\ waiting' = w
        /\ wokenBy' = Woken("exit", w)
    /\ \E m \in UnlockOutcomes("worker") : mutex' = m
    /\ wpc' = "cond_destroy"
    /\ UNCHANGED <<gdigrabVars, mutexDestroyed, condDestroyed, i, sn, error,
                   l_frame_in_stock, time_start, time_end, now, mainVars,
                   closes, dc_stage, delivered, published>>

\* gdigrab_cond_destroy; the thread returns.
WorkerCondDestroy ==
    /\ wpc = "cond_destroy"
    /\ mutexDestroyed' = TRUE
    /\ condDestroyed' = TRUE
    /\ wpc' = "done"
    /\ UNCHANGED <<gdigrabVars, mutex, waiting, i, sn, error,
                   l_frame_in_stock, time_start, time_end, now, mainVars,
                   closes, dc_stage, histVars>>

\* ---- gdigrab_read_packet ----

\* Return value of gdigrab_copy_frame: header_size + frame_size.
FileSize == 1

\* The frame_in_stock test that selects gdigrab_copy_frame.
HasFrame == frame_in_stock # NULL

\* Mutant: the flag is ignored and every pull may wait.
NonBlock_Never == FALSE

\* s1->flags & AVFMT_FLAG_NONBLOCK.
NonBlock == nonblock

\* pthread_mutex_lock and the if chain: fatal error, frame in stock,
\* AVFMT_FLAG_NONBLOCK, or pthread_cond_wait.  The branches that do not
\* copy go on to pthread_cond_broadcast, pthread_mutex_unlock, return.
ReadLock ==
    /\ mpc = "idle"
    /\ CanLock
    /\ IF error_code # 0
       THEN /\ ret' = EIO
            /\ \E w \in BroadcastOutcomes : waiting' = w
            /\ wokenBy' = "none"
            /\ UNCHANGED <<mpc, mutex>>
       ELSE IF HasFrame
       THEN /\ mpc' = "rp_copy"
            /\ mutex' = Locked("main")
            /\ wokenBy' = "none"
            /\ UNCHANGED <<ret, waiting>>
       ELSE IF NonBlock
       THEN /\ ret' = EAGAIN
            /\ \E w \in BroadcastOutcomes : waiting' = w
            /\ wokenBy' = "none"
            /\ UNCHANGED <<mpc, mutex>>
       ELSE /\ \E w \in WaitOutcomes("main") : waiting' = w
            /\ mpc' = "rp_wait"
            /\ wokenBy' = "none"
            /\ UNCHANGED <<ret, mutex>>
    /\ UNCHANGED <<gdigrabVars, mutexDestroyed, condDestroyed, workerVars,
                   nonblock, draw_mouse, extVars, start_ret, pkt, closes, dc_stage, delivered, published>>

\* pthread_cond_wait returns with the mutex reacquired: copy the frame in
\* stock, or AVERROR(EIO) "no captured image", broadcast, unlock, return.
ReadWake ==
    /\ mpc = "rp_wait"
    /\ "main" \notin waiting
    /\ CanLock
    /\ IF HasFrame
       THEN /\ mpc' = "rp_copy"
            /\ mutex' = Locked("main")
            /\ UNCHANGED <<ret, waiting>>
       ELSE /\ ret' = EIO
            /\ \E w \in BroadcastOutcomes : waiting' = w
            /\ mpc' = "idle"
            /\ UNCHANGED mutex
    /\ UNCHANGED <<gdigrabVars, mutexDestroyed, condDestroyed, workerVars,
                   nonblock, draw_mouse, extVars, start_ret, pkt, closes, dc_stage, histVars>>

\* gdigrab_copy_frame up to the start of the memcpy of the pixel data:
\* pkt->pts = time_frame and the source pointer frame_in_stock are read.
CopyFrameBegin ==
    /\ mpc = "rp_copy"
    /\ pkt' = [src |-> frame_in_stock, pts |-> time_frame]
    /\ mpc' = "rp_copying"
    /\ UNCHANGED <<gdigrabVars, syncVars, workerVars, nonblock, draw_mouse, extVars, start_ret,
                   ret, closes, dc_stage, histVars>>

\* The frame a memcpy from buffer p yields: whole only if p is a live
\* bitmap holding a finished capture from the start of the copy to its end.
CopiedFrame(p) ==
    IF p = NULL
    THEN [sn |-> -1, pts |-> pkt.pts, t0 |-> -1, ok |-> FALSE]
    ELSE [sn |-> buffer[p].sn, pts |-> pkt.pts, t0 |-> buffer[p].t0,
          ok |-> hbmp[p] /\ buffer[p].st = "ok"]

\* Mutant: gdigrab_read_packet returns a frame without a broadcast.
TakeWakes_None == {waiting}

\* Wait sets possible after the pthread_cond_broadcast that ends
\* gdigrab_read_packet.
TakeWakes == BroadcastOutcomes

\* The memcpy ends; frame_in_stock = NULL; back in gdigrab_read_packet:
\* pthread_cond_broadcast, pthread_mutex_unlock, return the size.
CopyFrameEnd ==
    /\ mpc = "rp_copying"
    /\ delivered' = Append(delivered, CopiedFrame(pkt.src))
    /\ frame_in_stock' = NULL
    /\ ret' = FileSize
    /\ \E w \in TakeWakes : waiting' = w
    /\ \E m \in UnlockOutcomes("main") : mutex' = m
    /\ mpc' = "idle"
    /\ pkt' = NoPkt
    /\ UNCHANGED <<error_code, grab_worker_quit, time_frame, hbmp, dest_hdc, source_hdc,
                   buffer, mutexDestroyed, condDestroyed, workerVars,
                   nonblock, draw_mouse, extVars, start_ret, closes, dc_stage, published, wokenBy>>

\* ---- gdigrab_read_close ----

\* The caller may close once gdigrab_read_header has succeeded.
Opened == mpc \in {"idle", "rp_copy", "rp_copying", "rp_wait"}

\* lock; grab_worker_quit = TRUE; broadcast; unlock; return 0.
ReadClose ==
    /\ Opened
    /\ closes < MaxClose
    /\ CanLock
    /\ grab_worker_quit' = TRUE
    /\ \E w \in BroadcastOutcomes :
        /\ waiting' = w
        /\ wokenBy' = Woken("close", w)
    /\ closes' = closes + 1
    /\ UNCHANGED <<error_code, frame_in_stock, time_frame, hbmp, dest_hdc, source_hdc,
                   buffer, mutex, mutexDestroyed, condDestroyed, workerVars,
                   mainVars, dc_stage, delivered, published>>

\* ---- environment ----

\* pthread_cond_wait returns although nothing signalled the condition.
SpuriousWakeup ==
    /\ \E t \in waiting :
        /\ waiting' = waiting \ {t}
        /\ wokenBy' = IF t = "main" THEN "spurious" ELSE wokenBy
    /\ UNCHANGED <<gdigrabVars, mutex, mutexDestroyed, condDestroyed,
                   workerVars, mainVars, closes, dc_stage, delivered, published>>

Worker ==
    \/ DcInit
    \/ LoopTop
    \/ Blit
    \/ PaintMouse
    \/ WorkerLock
    \/ WorkerWake
    \/ Sleep
    \/ DcDestroyFree
    \/ DcDestroyClear
    \/ WorkerExitSignal
    \/ WorkerCondDestroy

Next ==
    \/ StartCreate
    \/ StartCreateFail
    \/ StartLock
    \/ StartWake
    \/ StartReturn
    \/ Worker
    \/ ReadLock
    \/ ReadWake
    \/ CopyFrameBegin
    \/ CopyFrameEnd
    \/ ReadClose
    \/ SpuriousWakeup

Spec == Init /\ [][Next]_vars

\* The grabber while nobody calls gdigrab_read_close, with the worker
\* thread scheduled whenever its condition wait can return.
LiveNext ==
    \/ StartCreate
    \/ StartCreateFail
    \/ StartLock
    \/ StartWake
    \/ StartReturn
    \/ Worker
    \/ ReadLock
    \/ ReadWake
    \/ CopyFrameBegin
    \/ CopyFrameEnd
    \/ SpuriousWakeup

LiveSpec == Init /\ [][LiveNext]_vars /\ WF_vars(WorkerWake)

\* ======================= pacing =======================
\* The frame-rate control of gdigrab_worker on its own: the loop with the
\* capture and the post reduced to the time they take.

\* Periods (time_base) and capture-plus-post durations tried.
Periods == 2..MaxPeriod
WorkTimes(T) == {0, 1, StallPeriods * T}

\* Mutant: the raw sleep ignores the time the iteration has used.
TimeSleep_Flat(T, t_sleep_start, t_start) == T

\* time_sleep = time_base - (time_sleep_start - time_start).
TimeSleep(T, t_sleep_start, t_start) == T - (t_sleep_start - t_start)

\* Mutant: the balance is not added to the request.
RequestSleep_NoBalance(ts, bal) == ts

\* time_request_sleep = time_sleep + sleep_balance.
RequestSleep(ts, bal) == ts + bal

\* Mutant: the balance does not accumulate.
NewBalance_Forget(bal, ts, actual) == 0

\* sleep_balance += time_sleep - time_actual_sleep.
NewBalance(bal, ts, actual) == bal + (ts - actual)

\* Mutant: no lower limit.
ClampBalance_None(bal, T) == bal

\* if (sleep_balance < -time_base) sleep_balance = -time_base.
ClampBalance(bal, T) == IF bal < -T THEN -T ELSE bal

\* const time_base = gdigrab->time_base; sleep_balance = 0;
\* time_end = av_gettime(): the worker is about to enter the loop.
PacingInit ==
    /\ GrabberIdle
    /\ wpc = "loop"
    /\ nonblock = FALSE
    /\ ClipIdle
    /\ time_base \in Periods
    /\ jitter \in 0..MaxJitter
    /\ sleep_balance = 0
    /\ time_sleep_start = 0
    /\ time_sleep = 0
    /\ time_request_sleep = 0
    /\ time_actual_sleep = 0
    /\ prev_balance = 0
    /\ usleep_arg = NULL
    /\ clamped = FALSE
    /\ time_first = 0
    /\ steady = TRUE

\* What the pacing steps leave alone.
paceFrame == <<gdigrabVars, syncVars, i, error, l_frame_in_stock, mpc,
               nonblock, draw_mouse, start_ret, ret, pkt, clipVars, closes,
               dc_stage, histVars, time_base, jitter, time_first>>

\* time_start = time_end; the capture, the lock and the post take w.
PaceWork ==
    /\ wpc = "loop"
    /\ sn < MaxPaceFrames
    /\ time_start' = time_end
    /\ \E w \in WorkTimes(time_base) :
        /\ now' = now + w
        /\ steady' = (steady /\ w = 0)
    /\ wpc' = "sleep"
    /\ UNCHANGED <<paceFrame, sn, time_end, sleep_balance, time_sleep_start,
                   time_sleep, time_request_sleep, time_actual_sleep,
                   prev_balance, usleep_arg, clamped>>

\* "sleep based on the frame rate": av_usleep returns d late, or the two
\* clock readings around a skipped sleep are d apart.
PaceSleep ==
    /\ wpc = "sleep"
    /\ \E d \in 0..MaxJitter :
        LET ts == TimeSleep(time_base, now, time_start)
            req == RequestSleep(ts, sleep_balance)
            slept == IF req > 0 THEN req + d ELSE d
            bal == NewBalance(sleep_balance, ts, slept)
        IN  /\ time_sleep_start' = now
            /\ time_sleep' = ts
            /\ time_request_sleep' = req
            /\ usleep_arg' = IF req > 0 THEN req ELSE NULL
            /\ now' = now + slept
            /\ time_end' = now + slept
            /\ time_actual_sleep' = slept
            /\ prev_balance' = sleep_balance
            /\ sleep_balance' = ClampBalance(bal, time_base)
            /\ clamped' = (clamped \/ ClampBalance(bal, time_base) # bal)
            /\ steady' = (steady /\ d = jitter)
    /\ sn' = sn + 1
    /\ wpc' = "loop"
    /\ UNCHANGED <<paceFrame, time_start>>

PacingNext == PaceWork \/ PaceSleep

PacingSpec == PacingInit /\ [][PacingNext]_vars

\* ======================= capture area =======================
\* The geometry part of gdigrab_dc_init on its own.

IntMin == -(2^(IntBits - 1))
IntMax == 2^(IntBits - 1) - 1

\* Values of a signed int or LONG expression whose exact value is x: x, or
\* on overflow, which is undefined, any value.
IntResults(x) == IF x \in IntMin..IntMax THEN {x} ELSE IntMin..IntMax

\* Target bounds: the client rectangle of a window, and a virtual screen
\* whose primary monitor is not the leftmost one.
TargetRects ==
    {[left |-> 0, top |-> 0, right |-> MaxSize, bottom |-> MaxSize],
     [left |-> 0, top |-> 0, right |-> 0, bottom |-> MaxSize],
     [left |-> -1, top |-> 0, right |-> MaxSize - 1, bottom |-> MaxSize]}

\* GetDeviceCaps(source_hdc, BITSPIXEL).
BitDepths == {4, 8, 24}

\* "If no width or height set, use full screen/window area".
FullArea == width = 0 \/ height = 0

\* The bounds test of lines 357-360 on rectangle c.
OutsideTarget(c) ==
    \/ c.left < virtual_rect.left
    \/ c.top < virtual_rect.top
    \/ c.right > virtual_rect.right
    \/ c.bottom > virtual_rect.bottom

\* The test of lines 387-388 on the computed width dw and height dh.
InvalidProperties(dw, dh) == dw <= 0 \/ dh <= 0 \/ bpp % 8 # 0

\* gdigrab_dc_init is about to run with its options, the target's bounds
\* and its bit depth drawn.
ClipInit ==
    /\ GrabberIdle
    /\ wpc = "dc_init"
    /\ nonblock = FALSE
    /\ PacingIdle
    /\ width \in 0..MaxSize
    /\ height \in 0..MaxSize
    /\ offset_x \in IntMin..IntMax
    /\ offset_y \in IntMin..IntMax
    /\ virtual_rect \in TargetRects
    /\ bpp \in BitDepths
    /\ clip_rect = NoRect
    /\ dc_ret = NULL

\* Lines 344-392 and 433: clip_rect is computed, tested against the
\* target and for positive size and whole bytes, and stored on success.
ClipGeometry ==
    /\ wpc = "dc_init"
    /\ \E r \in IntResults(width + offset_x),
          b \in IntResults(height + offset_y) :
        LET c == IF FullArea THEN virtual_rect
                 ELSE [left |-> offset_x, top |-> offset_y,
                       right |-> r, bottom |-> b]
        IN  \E dw \in IntResults(c.right - c.left),
               dh \in IntResults(c.bottom - c.top) :
                LET bad == OutsideTarget(c) \/ InvalidProperties(dw, dh)
                IN  /\ dc_ret' = IF bad THEN EIO ELSE 0
                    /\ clip_rect' = IF bad THEN clip_rect ELSE c
                    /\ wpc' = IF bad THEN "end" ELSE "loop"
    /\ UNCHANGED <<gdigrabVars, syncVars, i, sn, error, l_frame_in_stock,
                   time_start, time_end, now, mpc, nonblock, draw_mouse,
                   start_ret, ret, pkt, pacingVars, width, height, offset_x,
                   offset_y, virtual_rect, bpp, closes, dc_stage, histVars>>

ClipSpec == ClipInit /\ [][ClipGeometry]_vars

\* ======================= claims =======================

StartReturned == mpc \notin {"init", "start_lock", "start_wait", "start_ret"}
FirstCaptureFailed == sn = 0 /\ error # 0
Frames == {k \in 1..Len(delivered) : delivered[k].sn >= 0}

\* C1: the slot holds at most one unconsumed frame, and the worker puts a
\* frame into the slot only when the slot is empty.
C1_AtMostOnePending ==
    /\ [](/\ published - Len(delivered) \in {0, 1}
          /\ frame_in_stock # NULL => published = Len(delivered) + 1)
    /\ [][published' # published => frame_in_stock = NULL]_vars

C1_Witness ==
    /\ wpc = "wait_stock"
    /\ "worker" \in waiting
    /\ frame_in_stock # NULL
    /\ l_frame_in_stock # NULL
    /\ published = 2
    /\ Len(delivered) = 1

\* The worker is writing into buffer i: BitBlt or paint_mouse_pointer.
Capturing == wpc \in {"blit", "paint"}

\* C2: while the worker captures into buffer i, the slot is empty or holds
\* the other buffer, and the consumer is not copying buffer i.
C2_NoSharedBuffer ==
    Capturing =>
        /\ frame_in_stock \in {NULL, 1 - i}
        /\ mpc = "rp_copying" => pkt.src # i

C2_Witness ==
    /\ Capturing
    /\ sn = 2
    /\ mpc = "rp_copying"
    /\ pkt.src = 1 - i

\* C3: a buffer is in the slot only after its capture succeeded, and every
\* frame copied out by gdigrab_read_packet is a whole captured frame.
C3_NoHalfWrittenFrame ==
    /\ frame_in_stock # NULL => buffer[frame_in_stock].st = "ok"
    /\ \A k \in 1..Len(delivered) : delivered[k].ok

\* C4: frames are delivered in capture order without duplication, and the
\* delivered timestamps do not decrease.
C4_CaptureOrder ==
    \A k, l \in Frames :
        k < l => /\ delivered[k].sn < delivered[l].sn
                 /\ delivered[k].pts <= delivered[l].pts

C4_Witness ==
    /\ Len(delivered) = 2
    /\ delivered[1].sn = 0
    /\ delivered[2].sn = 2
    /\ delivered[1].ok
    /\ delivered[2].ok

\* C5: a delivered frame carries the time_start of the iteration that
\* captured it, and time_frame does not change while a frame is in the slot.
C5_CaptureStartTime ==
    /\ [](\A k \in Frames : delivered[k].pts = delivered[k].t0)
    /\ [][frame_in_stock # NULL => time_frame' = time_frame]_vars

C5_Witness ==
    /\ Len(delivered) = 2
    /\ delivered[2].sn = 1
    /\ delivered[2].pts = delivered[2].t0
    /\ delivered[2].pts > delivered[1].pts
    /\ wpc = "sleep"
    /\ frame_in_stock # NULL
    /\ time_frame = time_start
    /\ time_frame < now

\* C6: when the first capture fails, gdigrab_worker_start returns 0 and no
\* frame is ever delivered.
C6_FirstFailureStartSucceeds ==
    FirstCaptureFailed =>
        /\ StartReturned => start_ret = 0
        /\ delivered = <<>>

\* C7: a blocking gdigrab_read_packet does not return an error because a
\* later iteration's capture failed.
C7_LaterFailureSkipped ==
    ~(/\ mpc = "idle"
      /\ ret = EIO
      /\ wokenBy = "skip"
      /\ ~grab_worker_quit
      /\ error_code = 0)

\* C8: once the worker has terminated, every gdigrab_read_packet call
\* returns the terminal error and none blocks.
C8_TerminalAfterExit ==
    [][(wpc = "done" /\ mpc = "idle") =>
           (mpc' = "idle" /\ ret' \in {ret, EIO})]_vars

\* C9: a gdigrab_read_packet blocked on an empty slot is woken by
\* gdigrab_read_close and by the worker leaving its loop, and a call woken
\* that way returns the terminal error.
C9_CloseWakesTake ==
    /\ []((mpc = "idle" /\ wokenBy \in {"close", "exit"}) => ret = EIO)
    /\ [][(/\ mpc = "rp_wait"
           /\ "main" \in waiting
           /\ \/ closes' # closes
              \/ wpc = "end_signal" /\ wpc' # wpc)
          => "main" \notin waiting']_vars

\* C10: once gdigrab_read_close has returned, the worker has exited and
\* has released both buffers and the device contexts.
C10_CloseJoins ==
    closes > 0 =>
        /\ wpc = "done"
        /\ ~hbmp[0]
        /\ ~hbmp[1]
        /\ ~dest_hdc

\* C11: once quit is requested the worker does not go (back) to sleep in the
\* wait for the slot to drain: the wait ends when the slot is empty or when
\* grab_worker_quit is true, so the worker terminates without a further take.
C11_QuitEndsPublishWait ==
    [][grab_worker_quit =>
          ~("worker" \notin waiting /\ "worker" \in waiting')]_vars

\* C12: grab_worker_quit is never reset, and a second gdigrab_read_close
\* works on a live mutex and condition and changes nothing of the grabber.
C12_CloseIdempotent ==
    [][/\ grab_worker_quit => grab_worker_quit'
       /\ (closes >= 1 /\ closes' = closes + 1) =>
             /\ ~mutexDestroyed
             /\ ~condDestroyed
             /\ UNCHANGED gdigrabVars]_vars

\* C13: when BitBlt returns with quit already requested, the worker does
\* not go on to paint_mouse_pointer.
C13_NoOverlayAfterQuit ==
    [][(wpc = "blit" /\ grab_worker_quit) => wpc' # "paint"]_vars

\* C17: with AVFMT_FLAG_NONBLOCK set gdigrab_read_packet never waits on
\* grab_cond; with no error recorded it goes on to copy the frame in stock
\* if there is one and otherwise returns AVERROR(EAGAIN) with the slot left
\* empty.
C17_NonBlockingPull ==
    [][nonblock =>
          /\ mpc' # "rp_wait"
          /\ (mpc = "idle" /\ error_code = 0 /\ (mpc' # mpc \/ ret' # ret)) =>
                IF frame_in_stock # NULL
                THEN mpc' = "rp_copy" /\ frame_in_stock' = frame_in_stock
                ELSE ret' = EAGAIN /\ mpc' = "idle" /\ frame_in_stock' = NULL]_vars

C17_Witness ==
    /\ nonblock
    /\ mpc = "idle"
    /\ ret = EAGAIN
    /\ frame_in_stock = NULL
    /\ Len(delivered) = 1
    /\ wpc = "blit"

\* C18: once gdigrab_worker_start has returned with the worker created,
\* gdigrab_dc_init has finished, and the returned value is an error exactly
\* when gdigrab_dc_init failed.
C18_StartReflectsInit ==
    (StartReturned /\ wpc # "none") =>
        /\ dc_stage # "none"
        /\ start_ret # 0 <=> dc_stage # "ok"

\* The worker is inside its capture loop.
InLoop == wpc \in {"loop", "blit", "paint", "lock", "wait_stock", "sleep"}

\* C20: from the moment a failed gdigrab_dc_init has signalled its error,
\* hence also when gdigrab_worker_start returns it, both bitmaps, both
\* device contexts and the slot are released and the worker is not, and has
\* never been, in its capture loop.
C20_StartupErrorReleases ==
    dc_stage \notin {"none", "ok"} =>
        /\ error_code # 0
        /\ ~source_hdc /\ ~dest_hdc
        /\ \A j \in 0..1 : ~hbmp[j]
        /\ frame_in_stock = NULL
        /\ ~InLoop /\ sn = 0 /\ published = 0

C20_Witness ==
    /\ dc_stage = "region_wnd"
    /\ mpc = "start_failed"
    /\ start_ret = EIO
    /\ wpc = "end"

\* An iteration of the pacing loop has just ended.
Paced == wpc = "loop" /\ sn >= 1

\* The time the capture and the post of the iteration just ended took.
Elapsed == time_sleep_start - time_start

\* C14: sleep_balance is never below -time_base, and an iteration whose
\* capture and post took StallPeriods periods or more ends with the balance
\* at exactly -time_base.
C14_BalanceFloor ==
    /\ sleep_balance >= -time_base
    /\ (Paced /\ Elapsed >= StallPeriods * time_base) =>
          sleep_balance = -time_base

C14_Witness ==
    /\ Paced
    /\ Elapsed = StallPeriods * time_base
    /\ clamped
    /\ sleep_balance = -time_base
    /\ prev_balance > -time_base

\* C15: at the end of an iteration the raw sleep is time_base minus the
\* time elapsed since time_start, the request is the raw sleep plus the
\* old balance, av_usleep is called with the request exactly when it is
\* positive, the actual sleep is the time between the clock readings, and
\* the new balance is old + (raw - actual), not below -time_base.
C15_PacingStep ==
    Paced =>
        /\ time_sleep = time_base - Elapsed
        /\ time_request_sleep = time_sleep + prev_balance
        /\ usleep_arg = IF time_request_sleep <= 0 THEN NULL
                        ELSE time_request_sleep
        /\ time_actual_sleep = time_end - time_sleep_start
        /\ LET b == prev_balance + (time_sleep - time_actual_sleep)
           IN  sleep_balance = IF b >= -time_base THEN b ELSE -time_base

C15_Witness ==
    /\ Paced
    /\ usleep_arg = NULL
    /\ time_actual_sleep > 0
    /\ prev_balance < 0
    /\ sleep_balance > -time_base

\* C16: with an instant capture and post and the same overshoot jitter on
\* every sleep, jitter below half a period, the time taken by sn iterations
\* differs from sn * time_base by at most jitter.
C16_SteadyRate ==
    (steady /\ 2 * jitter < time_base /\ wpc = "loop") =>
        LET err == (time_end - time_first) - sn * time_base
        IN  -jitter <= err /\ err <= jitter

C16_Witness ==
    /\ steady
    /\ jitter >= 1
    /\ 2 * jitter < time_base
    /\ wpc = "loop"
    /\ sn >= MaxPaceFrames

\* The rectangle the options ask for, in exact arithmetic.
Requested ==
    IF FullArea THEN virtual_rect
    ELSE [left |-> offset_x, top |-> offset_y,
          right |-> offset_x + width, bottom |-> offset_y + height]

\* C19: gdigrab_dc_init fails when the requested rectangle extends outside
\* the target, is empty, or the bit depth is not a multiple of 8; when it
\* succeeds clip_rect is the requested rectangle, inside the target, of
\* positive width and height, and the whole target when width or height is
\* not given.
C19_RegionChecked ==
    dc_ret # NULL =>
        /\ (\/ OutsideTarget(Requested)
            \/ Requested.right - Requested.left <= 0
            \/ Requested.bottom - Requested.top <= 0
            \/ bpp % 8 # 0) => dc_ret # 0
        /\ dc_ret = 0 =>
              /\ ~OutsideTarget(clip_rect)
              /\ clip_rect.right > clip_rect.left
              /\ clip_rect.bottom > clip_rect.top
              /\ FullArea => clip_rect = virtual_rect

\* The worker has left its loop for the end label, or has returned.
Exiting == wpc \in {"end", "end_clear", "end_signal", "cond_destroy", "done"}

\* C21: a gdigrab_read_packet that waited on an empty slot returns an error
\* only when quit was requested, a fatal error is recorded or the worker has
\* left its loop; being woken with the slot still empty is not enough.
C21_BlockingTakeKeepsBlocking ==
    [][(mpc = "rp_wait" /\ mpc' = "idle" /\ ret' = EIO) =>
          (grab_worker_quit \/ error_code # 0 \/ Exiting)]_vars

\* C23: the worker calls pthread_mutex_unlock at its end label only while
\* it holds grab_mutex, whichever way it got there.
C23_UnlockOnlyWhenHeld ==
    [][(wpc = "end_signal" /\ wpc' = "cond_destroy") =>
          mutex = "worker"]_vars

\* The main thread takes a step that locks, waits on, signals or unlocks
\* grab_mutex and grab_cond.
MainUsesSync ==
    /\ mpc \in {"start_lock", "start_wait", "idle", "rp_wait", "rp_copying"}
    /\ mpc' # mpc \/ ret' # ret \/ closes' # closes

\* C24: no step of the main thread uses grab_mutex or grab_cond once the
\* worker has destroyed them, and the worker destroys them only when no
\* other thread holds the mutex or waits on the condition.
C24_NoUseAfterDestroy ==
    [][/\ MainUsesSync => ~mutexDestroyed /\ ~condDestroyed
       /\ (wpc = "cond_destroy" /\ wpc' = "done") =>
             mutex # "main" /\ waiting = {}]_vars

\* C25: while the consumer is inside gdigrab_copy_frame the worker is not
\* in gdigrab_dc_destroy, and the buffer being copied has not been freed.
C25_NoTeardownDuringCopy ==
    mpc = "rp_copying" =>
        /\ wpc \notin {"end_clear", "end_signal"}
        /\ pkt.src # NULL
        /\ hbmp[pkt.src]

\* C26: with no quit requested and no error recorded, the worker and the
\* main thread are never both asleep on grab_cond, and neither sleeps on
\* while what it waits for has already happened: the worker only while the
\* slot is full, a pull only while the slot is empty.
C26_NoDeadlock ==
    (~grab_worker_quit /\ error_code = 0) =>
        /\ ~("worker" \in waiting /\ "main" \in waiting)
        /\ "worker" \in waiting => frame_in_stock # NULL
        /\ ("main" \in waiting /\ mpc = "rp_wait") => frame_in_stock = NULL

\* C22: a gdigrab_read_packet that returns a frame empties the slot and
\* takes the worker out of its wait, and a worker in the wait for the slot
\* to drain, once the slot is empty and no quit is requested, eventually
\* stores what it captured into the slot.
C22_TakeWakesWorker ==
    /\ [][(mpc = "rp_copying" /\ mpc' = "idle") =>
             (frame_in_stock' = NULL /\ "worker" \notin waiting')]_vars
    /\ (wpc = "wait_stock" /\ frame_in_stock = NULL /\ ~grab_worker_quit)
          ~> (wpc = "sleep" /\ frame_in_stock = l_frame_in_stock)

C22_Witness ==
    /\ wpc = "wait_stock"
    /\ frame_in_stock = NULL
    /\ "worker" \notin waiting
    /\ l_frame_in_stock # NULL
    /\ Len(delivered) = 1
    /\ mpc = "idle"

\* C27: while the clamp has never been applied, the time from the first
\* time_start to time_end after sn iterations is sn * time_base minus
\* sleep_balance.
C27_BalanceAccounts ==
    (~clamped /\ wpc = "loop") =>
        time_end - time_first = sn * time_base - sleep_balance

C27_Witness ==
    /\ ~clamped
    /\ ~steady
    /\ wpc = "loop"
    /\ sn = MaxPaceFrames
    /\ sleep_balance < 0
    /\ usleep_arg = NULL

====
